---- MODULE Spec2Model ----
(***************************************************************************)
(* PSA sales extractor: the three entry points processPsaSales             *)
(* (PSA-sales-csv-pdf.gs), ingestPsaSales (ingestPsaSales.js) and          *)
(* exportPsaSalesToPDFs (exportPsaSalesToPDFs.js) over one Gmail label,    *)
(* one 'PSA Sales' sheet, one 'ProcessedPDFs' ledger sheet and the Drive   *)
(* folders.  Caps and page sizes are scaled down; see the bounds below.    *)
(***************************************************************************)
EXTENDS Integers, Sequences, FiniteSets, TLC

\* ------------------------------------------------------------------ bounds
\* Scaled-down values of MAX_PER_RUN (gs: 100), MAX_PER_RUN (ingest: 250),
\* MAX_PER_RUN_PDF (100) and pageSize (50).
MAX_PER_RUN == 3
MAX_PER_RUN_INGEST == 3
MAX_PER_RUN_PDF == 2
pageSize == 2
\* Size of the labelled source, of one thread, and of a behaviour.
MaxMsgs == 4
MaxThreadLen == 2
MaxRuns == 3
MaxFaults == 2

\* ------------------------------------------------------------ configuration
DRIVE_FOLDER_PATH == "PSA/Extracted PDFs"
DRIVE_FOLDER_PATH_PDF == "Sales/PSA/Extracted PDFs"
idCol == 7

Null == "null"
LedgerHeader == "messageId"
IdNames == <<"m1", "m2", "m3", "m4", "m5", "m6">>
MsgIds == {IdNames[i] : i \in 1..MaxMsgs}

\* ------------------------------------------------------------ message source
\* What the plain body of each message contains (fixed per message id).
BodyOf(id) ==
  CASE id = "m1" -> {"cert", "price", "proceeds", "ended"}
    [] id = "m2" -> {"cert", "price"}
    [] id = "m3" -> {"cert", "price", "proceeds"}
    [] OTHER -> {}

Message(id) == [id |-> id, body |-> BodyOf(id)]

RECURSIVE SumSeq(_)
SumSeq(s) == IF s = <<>> THEN 0 ELSE Head(s) + SumSeq(Tail(s))

\* Thread layouts: a sequence of thread sizes; the messages are numbered
\* in label order.
Layouts ==
  {l \in UNION {[1..n -> 1..MaxThreadLen] : n \in 0..MaxMsgs} : SumSeq(l) <= MaxMsgs}

ThreadOf(l, k) ==
  LET before == SumSeq(SubSeq(l, 1, k - 1))
  IN [j \in 1..l[k] |-> Message(IdNames[before + j])]

SourceOf(l) == [k \in 1..Len(l) |-> ThreadOf(l, k)]

Sources == {SourceOf(l) : l \in Layouts}

Min(a, b) == IF a < b THEN a ELSE b

\* label.getThreads(start, max)
getThreads(src, start, max) == SubSeq(src, start + 1, Min(start + max, Len(src)))

\* ------------------------------------------------------------------ helpers
RECURSIVE SeqToSet(_)
SeqToSet(s) == IF s = <<>> THEN {} ELSE {Head(s)} \cup SeqToSet(Tail(s))

\* String.prototype.trim on the cell values that occur in the model.
Trim(v) ==
  CASE v = " m1 " -> "m1"
    [] v = " " -> ""
    [] OTHER -> v

\* Set.prototype.add on an insertion-ordered Set
SetAdd(s, x) == IF x \in SeqToSet(s) THEN s ELSE Append(s, x)

HeaderRow == <<"Cert", "Date", "Title", "Sold", "Fees", "Net", "Message ID">>

\* loadExistingMessageIds_: column idCol of rows 2..lastRow, trimmed, non-empty
loadExistingMessageIds_(rows) ==
  LET lastRow == Len(rows)
  IN IF lastRow >= 2
       THEN {Trim(rows[i][idCol]) : i \in 2..lastRow} \ {""}
       ELSE {}

\* A sheet of the spreadsheet: absent, or its rows (cells for the one-column
\* ledger sheet).
NoSheet == [exists |-> FALSE, rows |-> <<>>]
SheetOf(rows) == [exists |-> TRUE, rows |-> rows]

\* loadProcessedIds_: the ledger sheet after the call (created with its header
\* row when absent).
loadProcessedIds_sheet(log) ==
  IF ~log.exists THEN SheetOf(<<LedgerHeader>>) ELSE log

RECURSIVE TruthyCells(_)
TruthyCells(cells) ==
  IF cells = <<>> THEN <<>>
  ELSE LET rest == TruthyCells(SubSeq(cells, 1, Len(cells) - 1))
           last == cells[Len(cells)]
       IN IF last = "" THEN rest ELSE SetAdd(rest, last)

\* loadProcessedIds_: the returned Set, rows 2..lastRow, truthy cells only.
\* A zero-row range is taken to yield no values, as Math.max(0, ...) intends.
loadProcessedIds_(log) ==
  LET sh == loadProcessedIds_sheet(log)
  IN TruthyCells(SubSeq(sh.rows, 2, Len(sh.rows)))

\* The three writes of saveProcessedIds_, in the order the code issues them.
\* sheet.clearContents()
clearContents(log) == [log EXCEPT !.rows = <<>>]

\* sheet.getRange(1, 1).setValue('messageId')
setHeader(log) ==
  [log EXCEPT !.rows = IF log.rows = <<>> THEN <<LedgerHeader>>
                       ELSE [log.rows EXCEPT ![1] = LedgerHeader]]

\* if (ids.length) sheet.getRange(2, 1, ids.length, 1).setValues(...)
setIds(log, ids) ==
  IF ids = <<>> THEN log
  ELSE LET n == IF Len(log.rows) > Len(ids) + 1 THEN Len(log.rows) ELSE Len(ids) + 1
       IN [log EXCEPT !.rows =
             [i \in 1..n |-> IF i = 1 THEN (IF log.rows = <<>> THEN "" ELSE log.rows[1])
                             ELSE IF i <= Len(ids) + 1 THEN ids[i - 1]
                             ELSE log.rows[i]]]

\* saveProcessedIds_ run to its end: full replace of the ledger sheet;
\* nothing when the sheet is absent.
saveProcessedIds_(log, set) ==
  IF ~log.exists THEN log ELSE setIds(setHeader(clearContents(log)), set)

\* ------------------------------------------------------- extraction engine
\* What parsePsaEmail_ returns from its catch block (null)
ParseFailure == [ok |-> FALSE]

\* parsePsaEmail_ with the fee computed from the sale price alone
parsePsaEmail_FeesAlways(msg) ==
  LET cert == "cert" \in msg.body \/ "bgs" \in msg.body
      sold == "price" \in msg.body
      net == "proceeds" \in msg.body
  IN [ok |-> TRUE,
      certNumber |-> IF cert THEN "cert" ELSE Null,
      saleDate |-> "msgDate",
      cardTitle |-> IF cert /\ sold THEN "title" ELSE "subject",
      soldAmount |-> IF sold THEN "sold" ELSE Null,
      feesPaid |-> IF sold THEN "fees" ELSE Null,
      netProceeds |-> IF net THEN "net" ELSE Null]

\* parsePsaEmail_ of PSA-sales-csv-pdf.gs, on the features of the body;
\* values are abstracted to tokens, absence is Null.
parsePsaEmail_(msg) ==
  LET cert == "cert" \in msg.body \/ "bgs" \in msg.body
      sold == "price" \in msg.body
      net == "proceeds" \in msg.body
  IN [ok |-> TRUE,
      certNumber |-> IF cert THEN "cert" ELSE Null,
      saleDate |-> "msgDate",
      cardTitle |-> IF cert /\ sold THEN "title" ELSE "subject",
      soldAmount |-> IF sold THEN "sold" ELSE Null,
      feesPaid |-> IF sold /\ net THEN "fees" ELSE Null,
      netProceeds |-> IF net THEN "net" ELSE Null]

\* parsePsaEmail_ of ingestPsaSales.js: the sale date is the listing-ended
\* date of the body, or null.
ingest_parsePsaEmail_(msg) ==
  [parsePsaEmail_(msg) EXCEPT
     !.saleDate = IF "ended" \in msg.body THEN "endedDate" ELSE Null]

\* The row handed to sheet.appendRow
RowOf(parsed, msgId) ==
  <<parsed.certNumber, parsed.saleDate, parsed.cardTitle, parsed.soldAmount,
    parsed.feesPaid, parsed.netProceeds, msgId>>

\* appendRow writing over the last row of the sheet
appendRow_OverLast(sh, row) ==
  [sh EXCEPT !.rows = IF sh.rows = <<>> THEN <<row>>
                      ELSE [sh.rows EXCEPT ![Len(sh.rows)] = row]]

\* sheet.appendRow(row): one row after the last row of the sheet
appendRow(sh, row) == [sh EXCEPT !.rows = Append(sh.rows, row)]

\* ------------------------------------------------------------- PDF export
RenderOutcomes == {"ok", "convFail", "createFail", "nameFail"}

FileOf(msg, folder, named) == [msg |-> msg.id, folder |-> folder, named |-> named]

\* exportSinglePDF_ without processedSet.add
exportSinglePDF_NoMark(msg, folder, processedSet, o) ==
  CASE o \in {"ok", "nameFail"} ->
         [files |-> <<FileOf(msg, folder, o = "ok")>>,
          processedSet |-> processedSet, ok |-> o = "ok"]
    [] OTHER ->
         [files |-> <<>>, processedSet |-> processedSet, ok |-> FALSE]

\* exportSinglePDF_ under outcome o of the Drive calls: the files created,
\* the Set afterwards and the returned flag.
exportSinglePDF_(msg, folder, processedSet, o) ==
  CASE o = "ok" ->
         [files |-> <<FileOf(msg, folder, TRUE)>>,
          processedSet |-> SetAdd(processedSet, msg.id), ok |-> TRUE]
    [] o = "nameFail" ->
         [files |-> <<FileOf(msg, folder, FALSE)>>,
          processedSet |-> processedSet, ok |-> FALSE]
    [] OTHER ->
         [files |-> <<>>, processedSet |-> processedSet, ok |-> FALSE]

\* The try block of exportPsaSalesToPDFs.
exportTry_(msg, folder, processed, o) ==
  CASE o = "ok" ->
         [files |-> <<FileOf(msg, folder, TRUE)>>,
          processedSet |-> SetAdd(processed, msg.id), ok |-> TRUE]
    [] o = "nameFail" ->
         [files |-> <<FileOf(msg, folder, FALSE)>>,
          processedSet |-> processed, ok |-> FALSE]
    [] OTHER ->
         [files |-> <<>>, processedSet |-> processed, ok |-> FALSE]

\* ------------------------------------------------------------------- state
VARIABLES
  labelExists,  \* GmailApp.getUserLabelByName finds the label
  source,       \* the threads under the label, each a sequence of messages
  sheet,        \* the 'PSA Sales' sheet: all its rows, row 1 included
  logSheet,     \* the 'ProcessedPDFs' sheet: its column A
  files,        \* the files created in Drive, in creation order
  run,          \* per execution slot: the locals of the running entry point
  prev,         \* summary of the execution that ended last
  nRuns,        \* executions started
  nFaults,      \* faults injected
  io            \* one call of a helper function: argument, environment, result

vars == <<labelExists, source, sheet, logSheet, files, run, prev, nRuns, nFaults, io>>

\* io holds the argument and the result of one call of a helper function
\* called on its own; the entry points leave it alone.
NoIO == [fn |-> "none", in |-> <<>>, env |-> <<>>, out |-> <<>>, done |-> FALSE]

Procs == {1, 2}

NoPrev ==
  [ep |-> "none", pc |-> "idle", capped |-> FALSE, faulted |-> FALSE, renFailed |-> {},
   recFailed |-> {}, unrendered |-> {}]

IdleRun ==
  [ep |-> "none", pc |-> "idle", cause |-> "",
   processedPDFs |-> <<>>, existingMessageIds |-> {},
   salesProcessed |-> 0, pdfsExported |-> 0, emailsScanned |-> 0, emailsSkipped |-> 0,
   start |-> 0, threads |-> <<>>, ti |-> 1, mi |-> 1,
   hasSalesData |-> FALSE, hasPDF |-> FALSE,
   \* history of the execution
   loaded |-> {}, loadedRec |-> {}, fileBase |-> 0, rowBase |-> 0, logBase |-> NoSheet, seen |-> {}, recTried |-> {}, recFailed |-> {}, renTried |-> {}, renFailed |-> {},
   rowsAdded |-> 0, filesAdded |-> 0, saves |-> 0, faulted |-> FALSE,
   after |-> NoPrev]

Ended == {"done", "thrown", "aborted"}
Saving == {"save", "save2", "save3"}
Running == {"fetch", "iter", "record", "render"} \cup Saving

Cap(ep) ==
  CASE ep = "process" -> MAX_PER_RUN
    [] ep = "ingest" -> MAX_PER_RUN_INGEST
    [] OTHER -> MAX_PER_RUN_PDF

Count(ep, rec) == IF ep = "export" THEN rec.pdfsExported ELSE rec.salesProcessed

\* The cap test with the comparison turned into >
AtCap_Late(ep, rec) == Count(ep, rec) > Cap(ep)

\* The cap test of the loops: salesProcessed >= MAX_PER_RUN in processPsaSales,
\* appended >= MAX_PER_RUN in ingestPsaSales, exported >= MAX_PER_RUN_PDF in
\* exportPsaSalesToPDFs.
AtCap(ep, rec) == Count(ep, rec) >= Cap(ep)

\* The messages that have a row in the table and no file in Drive
Unrendered ==
  ({sheet.rows[i][idCol] : i \in 1..Len(sheet.rows)} \cap MsgIds)
    \ {files[i].msg : i \in 1..Len(files)}

Summary(rec) ==
  [ep |-> rec.ep, pc |-> rec.pc, capped |-> Count(rec.ep, rec) >= Cap(rec.ep),
   faulted |-> rec.faulted, renFailed |-> rec.renFailed,
   recFailed |-> rec.recFailed, unrendered |-> Unrendered]

\* The execution in slot r moves to rec; an execution that ends is summarised.
Set(r, rec) ==
  /\ run' = [run EXCEPT ![r] = rec]
  /\ prev' = IF rec.pc \in Ended THEN Summary(rec) ELSE prev
  /\ io' = io

Init ==
  /\ labelExists \in BOOLEAN
  /\ source \in Sources
  /\ sheet \in {NoSheet, SheetOf(<<>>), SheetOf(<<HeaderRow>>)}
  /\ logSheet = NoSheet
  /\ files = <<>>
  /\ run = [r \in Procs |-> IdleRun]
  /\ prev = NoPrev
  /\ nRuns = 0
  /\ nFaults = 0
  /\ io = NoIO

\* ---------------------------------------------------------- common pieces
CurMsg(rec) == rec.threads[rec.ti][rec.mi]

RecordOutcomes == {"ok", "null", "bodyThrow", "appendThrow"}

\* ConfigFault with the sheet check of processPsaSales left out
ConfigFault_NoSheetCheck(ep) ==
  CASE ep = "process" -> IF ~labelExists THEN "label" ELSE ""
    [] ep = "ingest" ->
         IF ~sheet.exists THEN "sheet" ELSE IF ~labelExists THEN "label" ELSE ""
    [] OTHER -> IF ~labelExists THEN "label" ELSE ""

\* The configuration checks of each entry point, in the order of the code:
\* the name of the missing item, "" when the checks pass.
ConfigFault(ep) ==
  CASE ep = "process" ->
         IF ~labelExists THEN "label" ELSE IF ~sheet.exists THEN "sheet" ELSE ""
    [] ep = "ingest" ->
         IF ~sheet.exists THEN "sheet" ELSE IF ~labelExists THEN "label" ELSE ""
    [] OTHER -> IF ~labelExists THEN "label" ELSE ""

\* Math.ceil(MAX_PER_RUN / 2) of ingestPsaSales
IngestThreads == (MAX_PER_RUN_INGEST + 1) \div 2

\* The two per-message decisions of processPsaSales
NeedsRecord(hasSalesData, hasPDF) == ~hasSalesData
\* The render decision taken only together with the record decision
NeedsRender_WithRecord(hasSalesData, hasPDF) == ~hasPDF /\ ~hasSalesData

NeedsRender(hasSalesData, hasPDF) == ~hasPDF

CanStart(r) == run[r].pc \in {"idle"} \cup Ended /\ nRuns < MaxRuns

Fresh(ep, pc) ==
  [IdleRun EXCEPT !.ep = ep, !.pc = pc, !.after = prev, !.fileBase = Len(files),
                 !.rowBase = Len(sheet.rows),
                 !.logBase = logSheet]

Inject(o) ==
  /\ o # "ok" => nFaults < MaxFaults
  /\ nFaults' = IF o = "ok" THEN nFaults ELSE nFaults + 1

\* The bookkeeping after parsePsaEmail_ failed, done as after a success
Recorded_CountsFailure(rec, msgId, ok) ==
  [rec EXCEPT !.existingMessageIds = rec.existingMessageIds \cup {msgId},
              !.salesProcessed = rec.salesProcessed + 1,
              !.rowsAdded = IF ok THEN rec.rowsAdded + 1 ELSE rec.rowsAdded,
              !.recFailed = IF ok THEN rec.recFailed ELSE rec.recFailed \cup {msgId}]

\* The bookkeeping of the record action once parsePsaEmail_ has returned:
\* after a record the id joins existingMessageIds and the count goes up,
\* after a failure (null) nothing changes.
Recorded(rec, msgId, ok) ==
  IF ok
    THEN [rec EXCEPT !.existingMessageIds = rec.existingMessageIds \cup {msgId},
                     !.salesProcessed = rec.salesProcessed + 1,
                     !.rowsAdded = rec.rowsAdded + 1]
    ELSE [rec EXCEPT !.recFailed = rec.recFailed \cup {msgId}]

\* saveProcessedIds_ as the run executes it: one write per step, so that an
\* execution ended by the host between two writes leaves what was written.
SaveStep(r, rec) ==
  IF rec.pc = "save"
    THEN IF ~logSheet.exists
           THEN /\ UNCHANGED logSheet
                /\ Set(r, [rec EXCEPT !.saves = rec.saves + 1, !.pc = "done"])
           ELSE /\ logSheet' = clearContents(logSheet)
                /\ Set(r, [rec EXCEPT !.pc = "save2"])
  ELSE IF rec.pc = "save2"
    THEN /\ logSheet' = setHeader(logSheet)
         /\ Set(r, [rec EXCEPT !.pc = "save3"])
  ELSE /\ logSheet' = setIds(logSheet, rec.processedPDFs)
       /\ Set(r, [rec EXCEPT !.saves = rec.saves + 1, !.pc = "done"])

\* --------------------------------------------------------- processPsaSales
ProcessStart(r) ==
  /\ CanStart(r)
  /\ nRuns' = nRuns + 1
  /\ IF ConfigFault("process") # ""
       THEN /\ Set(r, [Fresh("process", "thrown") EXCEPT !.cause = ConfigFault("process")])
            /\ UNCHANGED logSheet
       ELSE /\ logSheet' = loadProcessedIds_sheet(logSheet)
            /\ Set(r, [Fresh("process", "fetch") EXCEPT
                         !.processedPDFs = loadProcessedIds_(logSheet),
                         !.loaded = SeqToSet(loadProcessedIds_(logSheet)),
                         !.existingMessageIds = loadExistingMessageIds_(sheet.rows),
                         !.loadedRec = loadExistingMessageIds_(sheet.rows)])
  /\ UNCHANGED <<labelExists, source, sheet, files, nFaults>>

ProcessFetch(r) ==
  LET rec == run[r]
      threads == getThreads(source, rec.start, pageSize)
  IN /\ rec.ep = "process" /\ rec.pc = "fetch"
     /\ IF AtCap("process", rec) \/ threads = <<>>
          THEN Set(r, [rec EXCEPT !.pc = "save"])
          ELSE Set(r, [rec EXCEPT !.threads = threads, !.ti = 1, !.mi = 1, !.pc = "iter"])
     /\ UNCHANGED <<labelExists, source, sheet, logSheet, files, nRuns, nFaults>>

ProcessIter(r) ==
  LET rec == run[r]
  IN /\ rec.ep = "process" /\ rec.pc = "iter"
     /\ IF rec.ti > Len(rec.threads)
          THEN IF Len(rec.threads) < pageSize
                 THEN Set(r, [rec EXCEPT !.pc = "save"])
                 ELSE Set(r, [rec EXCEPT !.start = rec.start + pageSize, !.pc = "fetch"])
          ELSE IF rec.mi > Len(rec.threads[rec.ti]) \/ AtCap("process", rec)
                 THEN Set(r, [rec EXCEPT !.ti = rec.ti + 1, !.mi = 1])
                 ELSE LET msgId == CurMsg(rec).id
                          hasSalesData == msgId \in rec.existingMessageIds
                          hasPDF == msgId \in SeqToSet(rec.processedPDFs)
                          scanned == [rec EXCEPT !.emailsScanned = rec.emailsScanned + 1,
                                                 !.seen = rec.seen \cup {msgId},
                                                 !.hasSalesData = hasSalesData,
                                                 !.hasPDF = hasPDF]
                      IN IF hasSalesData /\ hasPDF
                           THEN Set(r, [scanned EXCEPT
                                          !.emailsSkipped = rec.emailsSkipped + 1,
                                          !.mi = rec.mi + 1])
                           ELSE Set(r, [scanned EXCEPT !.pc = "record"])
     /\ UNCHANGED <<labelExists, source, sheet, logSheet, files, nRuns, nFaults>>

ProcessRecord(r) ==
  LET rec == run[r]
      msg == CurMsg(rec)
  IN /\ rec.ep = "process" /\ rec.pc = "record"
     /\ IF ~NeedsRecord(rec.hasSalesData, rec.hasPDF)
          THEN /\ Set(r, [rec EXCEPT !.pc = "render"])
               /\ UNCHANGED <<sheet, nFaults>>
          ELSE \E o \in RecordOutcomes :
                 LET tried == [rec EXCEPT !.recTried = rec.recTried \cup {msg.id},
                                          !.faulted = rec.faulted \/ o # "ok"]
                     parsed == IF o = "ok" THEN parsePsaEmail_(msg) ELSE ParseFailure
                 IN /\ Inject(o)
                    /\ IF o \in {"ok", "null"}
                         THEN /\ sheet' = IF parsed.ok
                                            THEN appendRow(sheet, RowOf(parsed, msg.id))
                                            ELSE sheet
                              /\ Set(r, [Recorded(tried, msg.id, parsed.ok) EXCEPT
                                           !.pc = "render"])
                         ELSE /\ UNCHANGED sheet
                              /\ Set(r, [tried EXCEPT !.pc = "thrown", !.cause = o])
     /\ UNCHANGED <<labelExists, source, logSheet, files, nRuns>>

ProcessRender(r) ==
  LET rec == run[r]
      msg == CurMsg(rec)
  IN /\ rec.ep = "process" /\ rec.pc = "render"
     /\ IF ~NeedsRender(rec.hasSalesData, rec.hasPDF)
          THEN /\ Set(r, [rec EXCEPT !.mi = rec.mi + 1, !.pc = "iter"])
               /\ UNCHANGED <<files, nFaults>>
          ELSE \E o \in RenderOutcomes :
                 LET res == exportSinglePDF_(msg, DRIVE_FOLDER_PATH, rec.processedPDFs, o)
                 IN /\ Inject(o)
                    /\ files' = files \o res.files
                    /\ Set(r, [rec EXCEPT
                                 !.processedPDFs = res.processedSet,
                                 !.pdfsExported = IF res.ok THEN rec.pdfsExported + 1
                                                            ELSE rec.pdfsExported,
                                 !.renTried = rec.renTried \cup {msg.id},
                                 !.renFailed = IF o \in {"convFail", "createFail"}
                                                 THEN rec.renFailed \cup {msg.id}
                                                 ELSE rec.renFailed,
                                 !.filesAdded = rec.filesAdded + Len(res.files),
                                 !.faulted = rec.faulted \/ o # "ok",
                                 !.mi = rec.mi + 1, !.pc = "iter"])
     /\ UNCHANGED <<labelExists, source, sheet, logSheet, nRuns>>

ProcessSave(r) ==
  LET rec == run[r]
  IN /\ rec.ep = "process" /\ rec.pc \in Saving
     /\ SaveStep(r, rec)
     /\ UNCHANGED <<labelExists, source, sheet, files, nRuns, nFaults>>

\* ---------------------------------------------------------- ingestPsaSales
IngestStart(r) ==
  /\ CanStart(r)
  /\ nRuns' = nRuns + 1
  /\ IF ConfigFault("ingest") # ""
       THEN Set(r, [Fresh("ingest", "thrown") EXCEPT !.cause = ConfigFault("ingest")])
       ELSE Set(r, [Fresh("ingest", "iter") EXCEPT
                      !.existingMessageIds = loadExistingMessageIds_(sheet.rows),
                      !.loadedRec = loadExistingMessageIds_(sheet.rows),
                      !.threads = getThreads(source, 0, IngestThreads)])
  /\ UNCHANGED <<labelExists, source, sheet, logSheet, files, nFaults>>

IngestIter(r) ==
  LET rec == run[r]
  IN /\ rec.ep = "ingest" /\ rec.pc = "iter"
     /\ IF rec.ti > Len(rec.threads)
          THEN Set(r, [rec EXCEPT !.pc = "done"])
          ELSE IF rec.mi > Len(rec.threads[rec.ti]) \/ AtCap("ingest", rec)
                 THEN IF AtCap("ingest", rec)
                        THEN Set(r, [rec EXCEPT !.pc = "done"])
                        ELSE Set(r, [rec EXCEPT !.ti = rec.ti + 1, !.mi = 1])
                 ELSE LET msgId == CurMsg(rec).id
                          scanned == [rec EXCEPT !.emailsScanned = rec.emailsScanned + 1,
                                                 !.seen = rec.seen \cup {msgId}]
                      IN IF msgId \in rec.existingMessageIds
                           THEN Set(r, [scanned EXCEPT !.mi = rec.mi + 1])
                           ELSE Set(r, [scanned EXCEPT !.pc = "record"])
     /\ UNCHANGED <<labelExists, source, sheet, logSheet, files, nRuns, nFaults>>

IngestRecord(r) ==
  LET rec == run[r]
      msg == CurMsg(rec)
  IN /\ rec.ep = "ingest" /\ rec.pc = "record"
     /\ \E o \in RecordOutcomes :
          LET tried == [rec EXCEPT !.recTried = rec.recTried \cup {msg.id},
                                   !.faulted = rec.faulted \/ o # "ok"]
              parsed == IF o = "ok" THEN ingest_parsePsaEmail_(msg) ELSE ParseFailure
          IN /\ Inject(o)
             /\ IF o \in {"ok", "null"}
                  THEN /\ sheet' = IF parsed.ok
                                     THEN appendRow(sheet, RowOf(parsed, msg.id))
                                     ELSE sheet
                       /\ Set(r, [Recorded(tried, msg.id, parsed.ok) EXCEPT
                                    !.mi = rec.mi + 1, !.pc = "iter"])
                  ELSE /\ UNCHANGED sheet
                       /\ Set(r, [tried EXCEPT !.pc = "thrown", !.cause = o])
     /\ UNCHANGED <<labelExists, source, logSheet, files, nRuns>>

\* ---------------------------------------------------- exportPsaSalesToPDFs
ExportStart(r) ==
  /\ CanStart(r)
  /\ nRuns' = nRuns + 1
  /\ IF ConfigFault("export") # ""
       THEN /\ Set(r, [Fresh("export", "thrown") EXCEPT !.cause = ConfigFault("export")])
            /\ UNCHANGED logSheet
       ELSE /\ logSheet' = loadProcessedIds_sheet(logSheet)
            /\ Set(r, [Fresh("export", "fetch") EXCEPT
                         !.processedPDFs = loadProcessedIds_(logSheet),
                         !.loaded = SeqToSet(loadProcessedIds_(logSheet))])
  /\ UNCHANGED <<labelExists, source, sheet, files, nFaults>>

ExportFetch(r) ==
  LET rec == run[r]
      threads == getThreads(source, rec.start, pageSize)
  IN /\ rec.ep = "export" /\ rec.pc = "fetch"
     /\ IF AtCap("export", rec) \/ threads = <<>>
          THEN Set(r, [rec EXCEPT !.pc = "save"])
          ELSE Set(r, [rec EXCEPT !.threads = threads, !.ti = 1, !.mi = 1, !.pc = "iter"])
     /\ UNCHANGED <<labelExists, source, sheet, logSheet, files, nRuns, nFaults>>

ExportIter(r) ==
  LET rec == run[r]
  IN /\ rec.ep = "export" /\ rec.pc = "iter"
     /\ IF rec.ti > Len(rec.threads)
          THEN IF Len(rec.threads) < pageSize
                 THEN Set(r, [rec EXCEPT !.pc = "save"])
                 ELSE Set(r, [rec EXCEPT !.start = rec.start + pageSize, !.pc = "fetch"])
          ELSE IF rec.mi > Len(rec.threads[rec.ti]) \/ AtCap("export", rec)
                 THEN Set(r, [rec EXCEPT !.ti = rec.ti + 1, !.mi = 1])
                 ELSE LET id == CurMsg(rec).id
                          scanned == [rec EXCEPT !.emailsScanned = rec.emailsScanned + 1,
                                                 !.seen = rec.seen \cup {id}]
                      IN IF id \in SeqToSet(rec.processedPDFs)
                           THEN Set(r, [scanned EXCEPT !.mi = rec.mi + 1])
                           ELSE Set(r, [scanned EXCEPT !.pc = "render"])
     /\ UNCHANGED <<labelExists, source, sheet, logSheet, files, nRuns, nFaults>>

ExportRender(r) ==
  LET rec == run[r]
      msg == CurMsg(rec)
  IN /\ rec.ep = "export" /\ rec.pc = "render"
     /\ \E o \in RenderOutcomes :
          LET res == exportTry_(msg, DRIVE_FOLDER_PATH_PDF, rec.processedPDFs, o)
          IN /\ Inject(o)
             /\ files' = files \o res.files
             /\ Set(r, [rec EXCEPT
                          !.processedPDFs = res.processedSet,
                          !.pdfsExported = IF res.ok THEN rec.pdfsExported + 1
                                                     ELSE rec.pdfsExported,
                          !.renTried = rec.renTried \cup {msg.id},
                          !.renFailed = IF o \in {"convFail", "createFail"}
                                          THEN rec.renFailed \cup {msg.id}
                                          ELSE rec.renFailed,
                          !.filesAdded = rec.filesAdded + Len(res.files),
                          !.faulted = rec.faulted \/ o # "ok",
                          !.mi = rec.mi + 1, !.pc = "iter"])
     /\ UNCHANGED <<labelExists, source, sheet, logSheet, nRuns>>

ExportSave(r) ==
  LET rec == run[r]
  IN /\ rec.ep = "export" /\ rec.pc \in Saving
     /\ SaveStep(r, rec)
     /\ UNCHANGED <<labelExists, source, sheet, files, nRuns, nFaults>>

\* The host ends the execution (time limit) wherever it is.
Abort(r) ==
  /\ run[r].pc \in Running
  /\ nFaults < MaxFaults
  /\ nFaults' = nFaults + 1
  /\ Set(r, [run[r] EXCEPT !.pc = "aborted"])
  /\ UNCHANGED <<labelExists, source, sheet, logSheet, files, nRuns>>

Step(r) ==
  \/ ProcessStart(r)
  \/ ProcessFetch(r)
  \/ ProcessIter(r)
  \/ ProcessRecord(r)
  \/ ProcessRender(r)
  \/ ProcessSave(r)
  \/ IngestStart(r)
  \/ IngestIter(r)
  \/ IngestRecord(r)
  \/ ExportStart(r)
  \/ ExportFetch(r)
  \/ ExportIter(r)
  \/ ExportRender(r)
  \/ ExportSave(r)
  \/ Abort(r)

\* Executions strictly one after another: a single slot.
Next == Step(1)

Spec == Init /\ [][Next]_vars

\* ------------------------------------------------------ derived state
Column(rows, c) == [i \in 1..Len(rows) |-> rows[i][c]]

Occurrences(s, x) == Cardinality({i \in 1..Len(s) : s[i] = x})

FileMsgs == [i \in 1..Len(files) |-> files[i].msg]

\* The ids the persisted ledger sheet holds
LedgerIds == SeqToSet(loadProcessedIds_(logSheet))

HasCur(rec) == rec.ti <= Len(rec.threads) /\ rec.mi <= Len(rec.threads[rec.ti])

\* The render ledger as the program sees it: the Set of the execution that
\* holds one, the sheet otherwise.
RenderLedger ==
  IF run[1].pc \in Running /\ run[1].ep \in {"process", "export"}
    THEN SeqToSet(run[1].processedPDFs)
    ELSE LedgerIds

ConfigCauses == {"label", "sheet"}

\* The files the execution rec has created
FilesOf(rec) == SubSeq(files, rec.fileBase + 1, Len(files))

\* ------------------------------------------------------------------ claims

\* C1: the source-message-id values (7th column) of the rows of the table are
\* pairwise distinct after any number of sequential runs.
C1_DistinctMessageIds ==
  \A i, j \in 1..Len(sheet.rows) :
    i # j => sheet.rows[i][idCol] # sheet.rows[j][idCol]

\* C2: a run that follows a completed run of the same entry point appends no
\* row and writes no file.
C2_SecondRunAddsNothing ==
  \A r \in Procs :
    (run[r].after.pc = "done" /\ run[r].after.ep = run[r].ep)
      => (run[r].rowsAdded = 0 /\ run[r].filesAdded = 0)

\* C3: for every message id at most one row is ever appended and at most one
\* file is ever written, faults and host aborts included.
C3_AtMostOnce ==
  \A id \in MsgIds :
    /\ Occurrences(Column(sheet.rows, idCol), id) <= 1
    /\ Occurrences(FileMsgs, id) <= 1

\* C4: an id is in the render ledger exactly when a document of that message
\* has been written to the folder.
C4_LedgerIffWritten == RenderLedger = SeqToSet(FileMsgs)

\* C5: no fault of the record action or of the render action of a message
\* ends the run: only a configuration fault makes an entry point throw.
C5_FaultsIsolated ==
  \A r \in Procs :
    (run[r].ep = "process" /\ run[r].pc = "thrown") => run[r].cause \in ConfigCauses

\* C6: a run of processPsaSales or exportPsaSalesToPDFs that passed the
\* configuration checks and ended on its own has saved the render ledger
\* exactly once, with every id of its in-memory Set in it.
C6_LedgerSavedAtEnd ==
  \A r \in Procs :
    (/\ run[r].ep \in {"process", "export"}
     /\ run[r].pc \in {"done", "thrown"}
     /\ run[r].cause \notin ConfigCauses)
      => (run[r].saves = 1 /\ SeqToSet(run[r].processedPDFs) \subseteq LedgerIds)

\* All messages under the label, in scan order
RECURSIVE Flatten(_)
Flatten(ts) == IF ts = <<>> THEN <<>> ELSE Head(ts) \o Flatten(Tail(ts))

AllMsgs == Flatten(source)

\* The message the execution is working on has not had both decisions
\* carried out yet, or the host ended the execution on it.
InProgress(rec, id) ==
  /\ HasCur(rec)
  /\ CurMsg(rec).id = id
  /\ rec.pc \in {"record", "render", "aborted"}

\* C7: a failed conversion or file write leaves no file of this run for the
\* message, leaves its id out of the Set and of the saved ledger, does not
\* count as exported and does not end the run; the next run that scans the
\* message attempts the render action again.
C7_RenderFaultHandled ==
  \A r \in Procs :
    LET rec == run[r]
    IN rec.ep \in {"process", "export"} =>
         /\ \A id \in rec.renFailed :
              /\ id \notin SeqToSet(rec.processedPDFs)
              /\ \A i \in 1..Len(FilesOf(rec)) : FilesOf(rec)[i].msg # id
         /\ rec.pdfsExported = Cardinality(SeqToSet(rec.processedPDFs) \ rec.loaded)
         /\ rec.pc = "done" => rec.renFailed \cap LedgerIds = {}
         /\ (rec.pc = "thrown" /\ HasCur(rec)) => CurMsg(rec).id \notin rec.renFailed
         /\ \A id \in rec.after.renFailed \cap rec.seen :
              id \in rec.renTried \/ InProgress(rec, id)

\* What a configuration fault must leave behind
NothingDone(rec) ==
  /\ rec.pc = "thrown"
  /\ rec.emailsScanned = 0
  /\ rec.rowsAdded = 0
  /\ rec.filesAdded = 0
  /\ logSheet = rec.logBase

\* C8 (as claimed): in each entry point a missing label or a missing target
\* table makes the run throw before any message is processed, with no row, no
\* file and an untouched ledger sheet.
C8_ConfigFaultStopsRun ==
  \A r \in Procs :
    (run[r].ep # "none" /\ (~labelExists \/ ~sheet.exists)) => NothingDone(run[r])

\* C8 (amended): processPsaSales and ingestPsaSales throw on a missing label
\* or table, exportPsaSalesToPDFs, which uses no target table, on a missing
\* label; the throw comes before any message is processed, with no row, no
\* file and an untouched ledger sheet.
C8_ConfigFaultStopsRunAmended ==
  \A r \in Procs :
    (/\ run[r].ep # "none"
     /\ \/ ~labelExists
        \/ ~sheet.exists /\ run[r].ep \in {"process", "ingest"})
      => NothingDone(run[r])

\* processPsaSales has thrown on the missing table after an export run
\* wrote files and the ledger.
C8_Witness ==
  /\ run[1].ep = "process" /\ run[1].pc = "thrown" /\ run[1].cause = "sheet"
  /\ files # <<>>
  /\ LedgerIds # {}

\* C9: for every message processPsaSales scans, the record action is performed
\* exactly when the id was absent from the record ledger and the render
\* action exactly when it was absent from the render ledger.
C9_IndependentDecisions ==
  \A r \in Procs :
    LET rec == run[r]
    IN rec.ep = "process" =>
         \A id \in rec.seen :
           \/ InProgress(rec, id)
           \/ /\ id \in rec.recTried <=> id \notin rec.loadedRec
              /\ id \in rec.renTried <=> id \notin rec.loaded

\* C10: a fault-free first run of processPsaSales over N messages, N at most
\* the cap (the claim's N below the cap included), on an empty table and with
\* no ledger sheet, ends with one appended row per message (partial records
\* too), one file per message and a saved ledger of exactly the N ids.
C10_FreshRun ==
  \A r \in Procs :
    LET rec == run[r]
        n == Len(AllMsgs)
        base == Len(sheet.rows) - n
    IN (/\ rec.ep = "process" /\ rec.pc = "done"
        /\ rec.after = NoPrev
        /\ ~rec.faulted
        /\ n <= MAX_PER_RUN)
         => /\ base \in {0, 1}
            /\ \A k \in 1..n :
                 sheet.rows[base + k] = RowOf(parsePsaEmail_(AllMsgs[k]), AllMsgs[k].id)
            /\ files = [k \in 1..n |-> FileOf(AllMsgs[k], DRIVE_FOLDER_PATH, TRUE)]
            /\ logSheet = SheetOf(<<LedgerHeader>> \o [k \in 1..n |-> AllMsgs[k].id])
            /\ rec.salesProcessed = n /\ rec.pdfsExported = n

\* The scenario of the claim: three messages, the second without proceeds.
C10_Witness ==
  /\ run[1].ep = "process" /\ run[1].pc = "done"
  /\ run[1].after = NoPrev /\ ~run[1].faulted
  /\ Len(AllMsgs) = 3
  /\ Len(files) = 3
  /\ \E i \in 1..Len(sheet.rows) :
       sheet.rows[i][idCol] = "m2" /\ sheet.rows[i][6] = Null /\ sheet.rows[i][5] = Null

\* The ids whose render this execution counted as exported
RenderedBy(rec) ==
  {FilesOf(rec)[i].msg : i \in {j \in 1..Len(FilesOf(rec)) : FilesOf(rec)[j].named}}

\* C11: when saveProcessedIds_ runs the Set holds every id loaded from the
\* ledger and every id rendered in this run; after the run the ledger holds
\* what it held before plus the ids rendered; and at no point outside the
\* writes of the save does the ledger lack an id it held when the run began.
C11_LedgerMonotone ==
  \A r \in {1} :
    LET rec == run[r]
    IN rec.ep \in {"process", "export"} =>
         /\ rec.pc \in Saving \cup {"done"} =>
              rec.loaded \cup RenderedBy(rec) \subseteq SeqToSet(rec.processedPDFs)
         /\ rec.pc = "done" => LedgerIds = rec.loaded \cup RenderedBy(rec)
         /\ rec.pc \notin {"save2", "save3"} =>
              SeqToSet(loadProcessedIds_(rec.logBase)) \subseteq LedgerIds

\* The ids of the labelled messages
AllIds == {AllMsgs[i].id : i \in 1..Len(AllMsgs)}

\* C12: a run that came to its end without reaching its cap has scanned
\* every labelled message, in every entry point.
C12_ScansAll ==
  \A r \in {1} :
    LET rec == run[r]
    IN (rec.pc = "done" /\ Count(rec.ep, rec) < Cap(rec.ep)) => rec.seen = AllIds

\* C12 for the two entry points that page through the source
C12_PagedScansAll ==
  \A r \in {1} :
    LET rec == run[r]
    IN (rec.ep \in {"process", "export"} /\ rec.pc = "done"
        /\ Count(rec.ep, rec) < Cap(rec.ep)) => rec.seen = AllIds

\* The rows the execution rec has appended
RowsOf(rec) == SubSeq(sheet.rows, rec.rowBase + 1, Len(sheet.rows))

\* C13 (as claimed): the rows appended by a run never exceed the cap in
\* processPsaSales and ingestPsaSales, and the documents written by a run
\* never exceed the cap in exportPsaSalesToPDFs and in processPsaSales.
C13_CapBoundsWork ==
  \A r \in {1} :
    LET rec == run[r]
    IN /\ rec.ep \in {"process", "ingest"} => Len(RowsOf(rec)) <= Cap(rec.ep)
       /\ rec.ep \in {"process", "export"} => Len(FilesOf(rec)) <= Cap(rec.ep)

\* C13 (amended): the rows appended never exceed the cap in processPsaSales
\* and ingestPsaSales, and the documents exportPsaSalesToPDFs writes and
\* counts as exported never exceed its cap; processPsaSales compares its cap
\* with the rows only, so its documents are bounded by the messages scanned.
C13_CapBoundsWorkAmended ==
  \A r \in {1} :
    LET rec == run[r]
    IN /\ rec.ep \in {"process", "ingest"} => Len(RowsOf(rec)) <= Cap(rec.ep)
       /\ rec.ep = "export" => Cardinality(RenderedBy(rec)) <= Cap(rec.ep)
       /\ rec.ep = "process" => Len(FilesOf(rec)) <= rec.emailsScanned

\* A run that stopped recording at the cap with messages left over.
C13_Witness ==
  /\ run[1].ep = "process"
  /\ Len(RowsOf(run[1])) = Cap(run[1].ep)
  /\ run[1].pc = "done"
  /\ run[1].seen # AllIds

\* An export run that stopped rendering at its cap with messages left over.
C13_WitnessExport ==
  /\ run[1].ep = "export"
  /\ Cardinality(RenderedBy(run[1])) = Cap("export")
  /\ run[1].pc = "done"
  /\ run[1].seen # AllIds

\* C13, the part about the documents of processPsaSales alone
C13_ProcessDocsCapped ==
  \A r \in {1} : run[r].ep = "process" => Len(FilesOf(run[r])) <= Cap("process")

\* The execution that ended last was a processPsaSales run that reached
\* its cap, came to its end with no fault and left messages recorded in
\* the table without a document.
LeftByCap(rec) ==
  /\ rec.after.ep = "process" /\ rec.after.pc = "done"
  /\ rec.after.capped /\ ~rec.after.faulted
  /\ rec.after.unrendered # {}

C20_ParseFailure ==
  \A r \in {1} :
    LET rec == run[r]
    IN rec.ep \in {"process", "ingest"} =>
         /\ rec.salesProcessed = Len(RowsOf(rec))
         /\ \A id \in rec.recFailed :
              /\ \A i \in 1..Len(RowsOf(rec)) : RowsOf(rec)[i][idCol] # id
              /\ id \notin rec.existingMessageIds
              /\ rec.ep = "process" =>
                   \/ id \in rec.loaded
                   \/ id \in rec.renTried
                   \/ InProgress(rec, id)
         /\ \A id \in rec.after.recFailed \cap rec.seen :
              id \in rec.recTried \/ InProgress(rec, id)

\* The extraction of m1 failed in a processPsaSales run, which rendered m1
\* all the same; the next run attempted the record again and appended it.
C20_Witness ==
  /\ run[1].ep = "process" /\ run[1].after.ep = "process" /\ run[1].after.pc = "done"
  /\ "m1" \in run[1].after.recFailed
  /\ run[1].fileBase >= 1 /\ files[1].msg = "m1"
  /\ "m1" \in run[1].recTried
  /\ \E i \in 1..Len(RowsOf(run[1])) : RowsOf(run[1])[i][idCol] = "m1"

\* The ids of the rows the execution rec has appended
RowIdsOf(rec) == {RowsOf(rec)[i][idCol] : i \in 1..Len(RowsOf(rec))}

\* C21: at every point of a run of processPsaSales or ingestPsaSales the
\* in-memory record ledger equals the set of non-empty ids in the 7th column
\* of the rows of the table from row 2 on; it is what was loaded plus the id
\* of each row the run appended, and nothing else.
C21_LedgerProjection ==
  \A r \in {1} :
    LET rec == run[r]
    IN (rec.ep \in {"process", "ingest"} /\ rec.pc \in Running) =>
         /\ rec.loadedRec = loadExistingMessageIds_(SubSeq(sheet.rows, 1, rec.rowBase))
         /\ rec.existingMessageIds = rec.loadedRec \cup RowIdsOf(rec)
         /\ rec.existingMessageIds = loadExistingMessageIds_(sheet.rows)

\* C21 without the comparison with the table: the Set is what was loaded
\* plus the ids of the rows appended.
C21_LoadedPlusAppended ==
  \A r \in {1} :
    LET rec == run[r]
    IN (rec.ep \in {"process", "ingest"} /\ rec.pc \in Running) =>
         /\ rec.loadedRec = loadExistingMessageIds_(SubSeq(sheet.rows, 1, rec.rowBase))
         /\ rec.existingMessageIds = rec.loadedRec \cup RowIdsOf(rec)

\* C21 for a run that found at least one row (the header row) in the table
C21_ProjectionWithHeader ==
  \A r \in {1} :
    LET rec == run[r]
    IN (rec.ep \in {"process", "ingest"} /\ rec.pc \in Running /\ rec.rowBase >= 1) =>
         rec.existingMessageIds = loadExistingMessageIds_(sheet.rows)

\* What a step of slot r does to the table, the ledger sheet, the folder
\* and the source, by the position the execution was in and the entry
\* point it belongs to.
FrameOf(r) ==
  LET rec == run[r]
      after == run'[r]
  IN /\ rec.pc = "record" =>
          /\ logSheet' = logSheet
          /\ files' = files
          /\ after.processedPDFs = rec.processedPDFs
     /\ rec.pc = "render" =>
          /\ sheet' = sheet
          /\ after.existingMessageIds = rec.existingMessageIds
     /\ after.ep = "ingest" => (logSheet' = logSheet /\ files' = files)
     /\ after.ep = "export" => sheet' = sheet
     /\ sheet'.exists = sheet.exists
     /\ Len(sheet'.rows) >= Len(sheet.rows)
     /\ SubSeq(sheet'.rows, 1, Len(sheet.rows)) = sheet.rows
     /\ Len(files') >= Len(files)
     /\ SubSeq(files', 1, Len(files)) = files
     /\ source' = source
     /\ labelExists' = labelExists

\* C24: the record action never changes the render ledger or the folder,
\* the render action never changes the table or the record ledger; a run of
\* ingestPsaSales leaves the ledger sheet and the folder unchanged, a run of
\* exportPsaSalesToPDFs leaves the table unchanged; and no step of any entry
\* point modifies or deletes an existing row, an existing file or the source.
C24_Frame == [][FrameOf(1)]_vars

\* An ingestPsaSales run appended rows to a table that already had rows of
\* an earlier run, with files in the folder and ids in the ledger sheet, and
\* a processPsaSales run recorded and rendered before it.
C24_Witness ==
  /\ run[1].ep = "ingest" /\ run[1].pc = "done"
  /\ run[1].rowBase >= 2 /\ Len(RowsOf(run[1])) >= 1
  /\ run[1].after.ep = "process"
  /\ files # <<>> /\ LedgerIds # {}

\* The run of processPsaSales in slot r has come to its end and reports its
\* counts (the lines after saveProcessedIds_).
Reports(r) == run[r].ep = "process" /\ run[r].pc = "done"

\* The ids the execution rec added to its Set of rendered messages
AddedToLedger(rec) == SeqToSet(rec.processedPDFs) \ rec.loaded

\* C25, recorded, skipped and the bounds: the recorded count is the number
\* of rows appended, the skipped count the number of scanned messages found
\* in both ledgers, and no count exceeds the scanned count.
C25_RecordedSkipped ==
  \A r \in {1} :
    LET rec == run[r]
    IN Reports(r) =>
         /\ rec.salesProcessed = Len(RowsOf(rec))
         /\ rec.emailsScanned = Cardinality(rec.seen)
         /\ rec.emailsSkipped = Cardinality(rec.seen \cap rec.loadedRec \cap rec.loaded)
         /\ rec.emailsSkipped <= rec.emailsScanned
         /\ rec.salesProcessed <= rec.emailsScanned
         /\ rec.pdfsExported <= rec.emailsScanned

\* C25, rendered against the ledger: the rendered count is the number of
\* ids added to the Set, all of them in the saved ledger sheet.
C25_RenderedLedger ==
  \A r \in {1} :
    LET rec == run[r]
    IN Reports(r) =>
         /\ rec.pdfsExported = Cardinality(AddedToLedger(rec))
         /\ AddedToLedger(rec) = LedgerIds \ rec.loaded

\* C25, rendered against the folder: the rendered count is the number of
\* files written during the run.
C25_RenderedFiles ==
  \A r \in {1} : Reports(r) => run[r].pdfsExported = Len(FilesOf(run[r]))

\* C25: at the end of every run of processPsaSales the recorded count is the
\* number of rows appended, the rendered count the number of ids added to
\* the render ledger and of files written, the skipped count the number of
\* scanned messages that were in both ledgers, and each is at most the
\* scanned count.
C25_SummaryCounts == C25_RecordedSkipped /\ C25_RenderedLedger /\ C25_RenderedFiles

\* C25, rendered against the folder, counting the files that were named
C25_RenderedNamedFiles ==
  \A r \in {1} :
    Reports(r) => run[r].pdfsExported = Cardinality(RenderedBy(run[r]))

\* An execution finds the ledger sheet cleared: the execution before it was
\* ended by the host inside saveProcessedIds_.
C23_NeverFoundCleared ==
  \A r \in {1} :
    run[r].ep \in {"process", "export"} => run[r].logBase # SheetOf(<<>>)

\* ------------------------------------------------------- overlapping runs
\* Two executions at once (two triggers, or a trigger and a manual start):
\* each slot runs its entry point over the same table, ledger sheet and
\* label, one step at a time in any order.  No fault is injected here.
InitOverlap ==
  /\ labelExists = TRUE
  /\ source \in Sources
  /\ sheet = SheetOf(<<HeaderRow>>)
  /\ logSheet = NoSheet
  /\ files = <<>>
  /\ run = [r \in Procs |-> IdleRun]
  /\ prev = NoPrev
  /\ nRuns = 0
  /\ nFaults = MaxFaults
  /\ io = NoIO

NextOverlap == \E r \in Procs : Step(r)

SpecOverlap == InitOverlap /\ [][NextOverlap]_vars

\* Two rows of the table carry the same message id.
TwoRows ==
  \E id \in MsgIds : Occurrences(Column(sheet.rows, idCol), id) >= 2

\* Two files of Drive are documents of the same message.
TwoFiles == \E id \in MsgIds : Occurrences(FileMsgs, id) >= 2

\* No execution is inside the writes of saveProcessedIds_.
NoSaveGoing == \A r \in Procs : run[r].pc \notin {"save2", "save3"}

\* An id that an execution saved to the ledger sheet, or found in it when it
\* began, is no longer there.
LostId ==
  /\ NoSaveGoing
  /\ \E r \in Procs :
       \/ /\ run[r].pc = "done" /\ run[r].saves = 1 /\ run[r].logBase.exists
          /\ ~(SeqToSet(run[r].processedPDFs) \subseteq LedgerIds)
       \/ /\ run[r].ep \in {"process", "export"}
          /\ ~(SeqToSet(loadProcessedIds_(run[r].logBase)) \subseteq LedgerIds)

\* C22 (runs one after another): no message id has two rows, no message has
\* two documents and no id of the render ledger is lost.
C22_SequentialSafe == ~TwoRows /\ ~TwoFiles /\ ~LostId

\* C22 (runs one after another) when no fault was injected and the table
\* has its header row
C22_SequentialSafeNoFault ==
  (nFaults = 0 /\ (sheet.rows # <<>> => sheet.rows[1] = HeaderRow)) => C22_SequentialSafe

\* C22 (overlapping runs): none of the three corrupted states
C22_NoTwoRows == ~TwoRows
C22_NoTwoFiles == ~TwoFiles
C22_NoLostId == ~LostId

\* ------------------------------------------- helper functions on their own
\* The patterns a body can hold: a PSA/CGC cert line, a BGS cert line, a
\* sale price, the proceeds, a listing-ended date.
Features == {"cert", "bgs", "price", "proceeds", "ended"}

Call(fn, in, env) == [fn |-> fn, in |-> in, env |-> env, out |-> <<>>, done |-> FALSE]

ParseFns == {"parsePsaEmail_", "ingest_parsePsaEmail_"}

\* A call of parsePsaEmail_ is about to be made on some body.
ParseInputs ==
  \E f \in ParseFns, b \in SUBSET Features : io = Call(f, [id |-> "m1", body |-> b], <<>>)

rest == <<labelExists, source, sheet, logSheet, files, run, prev, nRuns, nFaults>>

Return(v) ==
  /\ ~io.done
  /\ io' = [io EXCEPT !.out = v, !.done = TRUE]
  /\ UNCHANGED rest

ApplyParse == io.fn = "parsePsaEmail_" /\ Return(parsePsaEmail_(io.in))

ApplyIngestParse == io.fn = "ingest_parsePsaEmail_" /\ Return(ingest_parsePsaEmail_(io.in))

C15_SaleDate ==
  (io.fn \in ParseFns /\ io.done) =>
    io.out.saleDate = IF "ended" \in io.in.body THEN "endedDate" ELSE "msgDate"

\* C15 for each version of parsePsaEmail_ on the side where it agrees
C15_SaleDateGs ==
  (io.fn = "parsePsaEmail_" /\ io.done /\ "ended" \notin io.in.body) =>
    io.out.saleDate = "msgDate"

C15_SaleDateIngest ==
  (io.fn = "ingest_parsePsaEmail_" /\ io.done /\ "ended" \in io.in.body) =>
    io.out.saleDate = "endedDate"

\* ------------------------------------------------------------ buildFileName_
\* Strings are sequences of characters; the formatted date and the
\* extension are single items.
SubjectMax == 120

Forbidden == {"\\", "/", ":", "*", "?", "\"", "<", ">", "|", "#"}

Whitespace == {" ", "\t"}

\* s.replace(/[class]+/g, c): every maximal run of class becomes one c
ReplaceRuns(s, class, c) ==
  LET marked == [i \in 1..Len(s) |->
                   IF s[i] \notin class THEN s[i]
                   ELSE IF i > 1 /\ s[i - 1] \in class THEN "dropped" ELSE c]
      Kept(x) == x # "dropped"
  IN SelectSeq(marked, Kept)

\* String.prototype.trim
trim(s) ==
  LET inked == {i \in 1..Len(s) : s[i] \notin Whitespace}
  IN IF inked = {} THEN <<>>
     ELSE SubSeq(s, CHOOSE i \in inked : \A k \in inked : i <= k,
                    CHOOSE i \in inked : \A k \in inked : i >= k)

\* s.substring(0, n)
substring(s, n) == SubSeq(s, 1, Min(n, Len(s)))

NoSubject == <<"N", "o", " ", "S", "u", "b", "j", "e", "c", "t">>

PsaSaleCert == <<"P", "S", "A", " ", "S", "a", "l", "e", " ", "C", "e", "r", "t", " ">>

\* cleanedSubject without the whitespace collapse
cleanedSubject_NoCollapse(subj) ==
  substring(trim(ReplaceRuns(subj, Forbidden, " ")), SubjectMax)

\* cleanedSubject of buildFileName_
cleanedSubject(subj) ==
  substring(trim(ReplaceRuns(ReplaceRuns(subj, Forbidden, " "), Whitespace, " ")),
            SubjectMax)

\* The two outcomes of buildFileName_, given whether its certRegex matched
FileName(msg, certMatch) ==
  LET subj == IF msg.subject = <<>> THEN NoSubject ELSE msg.subject
  IN IF certMatch
       THEN <<msg.date, " ", "-", " ">> \o PsaSaleCert \o <<"certNumber", ".pdf">>
       ELSE <<msg.date, " ", "-", " ">> \o cleanedSubject(subj) \o <<".pdf">>

\* buildFileName_ of PSA-sales-csv-pdf.gs: certRegex (?:PSA|CGC|BGS) CERT
buildFileName_(msg) == FileName(msg, "cert" \in msg.body \/ "bgs" \in msg.body)

\* buildFileName_ of exportPsaSalesToPDFs.js: certRegex (?:PSA|CGC) CERT
export_buildFileName_(msg) == FileName(msg, "cert" \in msg.body)

NameFns == {"buildFileName_", "export_buildFileName_"}

\* The subjects tried: every string over SubjectChars up to MaxSubjectLen,
\* the subject of the example, and two subjects longer than SubjectMax, the
\* second with a space as its character number SubjectMax.
MaxSubjectLen == 4
LongSubjectLen == 130
SubjectChars == {"a", ":", "#", " ", "!"}

RECURSIVE Strings(_, _)
Strings(alphabet, n) ==
  IF n = 0 THEN {<<>>}
  ELSE Strings(alphabet, n - 1) \cup
       {Append(t, c) : t \in Strings(alphabet, n - 1), c \in alphabet}

ExampleSubject ==
  <<"I", "t", "e", "m", ":", " ", "S", "o", "l", "d", "!", " ", "#", "4", "2">>

LongSubject == [i \in 1..LongSubjectLen |-> IF i % 7 = 0 THEN "/" ELSE "a"]

LongSubjectSpace == [i \in 1..LongSubjectLen |-> IF i = SubjectMax THEN " " ELSE "a"]

Subjects ==
  Strings(SubjectChars, MaxSubjectLen) \cup {ExampleSubject, LongSubject, LongSubjectSpace}

NameInputs ==
  \E f \in NameFns, b \in {{}, {"cert"}, {"bgs"}}, t \in Subjects :
    io = Call(f, [id |-> "m1", body |-> b, subject |-> t, date |-> "2024-03-05"], <<>>)

ApplyBuildFileName == io.fn = "buildFileName_" /\ Return(buildFileName_(io.in))

ApplyExportBuildFileName ==
  io.fn = "export_buildFileName_" /\ Return(export_buildFileName_(io.in))

\* The sanitising as the claim words it: each forbidden character becomes a
\* space, whitespace is collapsed, the result trimmed and cut to SubjectMax.
Sanitized(subj) ==
  LET spaced == [i \in 1..Len(subj) |-> IF subj[i] \in Forbidden THEN " " ELSE subj[i]]
  IN substring(trim(ReplaceRuns(spaced, Whitespace, " ")), SubjectMax)

IsPrefix(pre, s) == Len(pre) <= Len(s) /\ SubSeq(s, 1, Len(pre)) = pre

\* The call is one of buildFileName_ on a body its certRegex does not match
NoCertCall ==
  /\ io.fn \in NameFns /\ io.done
  /\ "cert" \notin io.in.body
  /\ io.fn = "buildFileName_" => "bgs" \notin io.in.body

\* C16 (as claimed): with no certification match the filename is the date,
\* ' - ', the sanitised subject and '.pdf'; the subject 'Item: Sold! #42'
\* with date 2024-03-05 gives a filename beginning '2024-03-05 - Item Sold 42'.
C16_FileName ==
  NoCertCall =>
    /\ io.out = <<io.in.date, " ", "-", " ">> \o Sanitized(io.in.subject) \o <<".pdf">>
    /\ io.in.subject = ExampleSubject =>
         IsPrefix(<<"2024-03-05", " ", "-", " ", "I", "t", "e", "m", " ",
                    "S", "o", "l", "d", " ", "4", "2">>, io.out)

\* C16 (amended): with no certification match the filename is the date,
\* ' - ', the sanitised subject ('No Subject' for an empty subject) and
\* '.pdf'; the sanitised subject holds no forbidden character, no two
\* spaces in a row, no leading space and at most SubjectMax characters; the
\* subject 'Item: Sold! #42' gives '2024-03-05 - Item Sold! 42.pdf'.
C16_FileNameAmended ==
  NoCertCall =>
    LET subj == IF io.in.subject = <<>> THEN NoSubject ELSE io.in.subject
        name == SubSeq(io.out, 5, Len(io.out) - 1)
    IN /\ io.out = <<io.in.date, " ", "-", " ">> \o Sanitized(subj) \o <<".pdf">>
       /\ Len(name) <= SubjectMax
       /\ \A i \in 1..Len(name) :
            /\ name[i] \notin Forbidden
            /\ name[i] \in Whitespace => (i > 1 /\ name[i - 1] \notin Whitespace)
       /\ io.in.subject = ExampleSubject =>
            io.out = <<"2024-03-05", " ", "-", " ", "I", "t", "e", "m", " ",
                       "S", "o", "l", "d", "!", " ", "4", "2", ".pdf">>

\* The subject of the example has been turned into a filename.
C16_Witness ==
  /\ NoCertCall
  /\ io.in.subject = ExampleSubject
  /\ Len(io.out) = 18

\* ---------------------------------------------------------- inlineCidImages_
\* The HTML is a sequence of segments: plain text (kind "text"), a reference
\* src = q cid:X q (kind "cid": quote q, whitespace around '=' or not, X) and,
\* newly written, src=q<uri>q (kind "src"). Content ids are strings.
toLowerCase(t) ==
  [i \in 1..Len(t) |-> CASE t[i] = "A" -> "a" [] t[i] = "C" -> "c" [] OTHER -> t[i]]

\* (cid || '').replace(/[<>]/g, '').trim(), then .toLowerCase()
NormalizeCid(t) ==
  LET NotBracket(c) == c \notin {"<", ">"}
  IN toLowerCase(trim(SelectSeq(t, NotBracket)))

\* `data:${contentType};base64,${base64}`
DataUri(a) ==
  [ctype |-> IF a.ctype = "" THEN "application/octet-stream" ELSE a.ctype,
   base64 |-> a.bytes]

constructor == <<"c", "o", "n", "s", "t", "r", "u", "c", "t", "o", "r">>
proto == <<"_", "_", "p", "r", "o", "t", "o", "_", "_">>

\* What a plain object {} answers for a key it was never given: the
\* properties it inherits, undefined otherwise.
Inherited(key) ==
  CASE key = constructor -> [found |-> TRUE, value |-> "function Object() { [native code] }"]
    [] key = proto -> [found |-> TRUE, value |-> "[object Object]"]
    [] OTHER -> [found |-> FALSE, value |-> ""]

\* cidMap[key] after the loop over the attachments: the entry written last
\* for the key, else what {} inherits.
cidMapGet(atts, key) ==
  LET own == {i \in 1..Len(atts) :
                NormalizeCid(atts[i].cid) # <<>> /\ NormalizeCid(atts[i].cid) = key}
  IN IF own # {}
       THEN [found |-> TRUE, value |-> DataUri(atts[CHOOSE i \in own : \A k \in own : i >= k])]
       ELSE Inherited(key)

\* inlineCidImages_ of both files
inlineCidImages_(html, atts) ==
  IF atts = <<>> THEN html
  ELSE [i \in 1..Len(html) |->
          IF html[i].kind # "cid" THEN html[i]
          ELSE LET dataUri == cidMapGet(atts, NormalizeCid(html[i].cid))
               IN IF dataUri.found
                    THEN [kind |-> "src", q |-> html[i].q, uri |-> dataUri.value]
                    ELSE html[i]]

MaxCidLen == 2
MaxAtts == 2
CidChars == {"A", "<", " "}
RefCids == (Strings(CidChars, MaxCidLen) \ {<<>>})
             \cup {constructor, <<"C">> \o Tail(constructor), proto}
AttCids == {<<>>, <<"a">>, <<"<", "A", ">">>, <<"a", "a">>}
Attachments == {[cid |-> c, ctype |-> t, bytes |-> "bytes"] : c \in AttCids, t \in {"image/png", ""}}

RECURSIVE SeqsUpTo(_, _)
SeqsUpTo(S, n) ==
  IF n = 0 THEN {<<>>}
  ELSE SeqsUpTo(S, n - 1) \cup {Append(t, x) : t \in SeqsUpTo(S, n - 1), x \in S}

CidRefs == {[kind |-> "cid", q |-> q, ws |-> w, cid |-> c] :
              q \in {"'", "\""}, w \in BOOLEAN, c \in RefCids}

CidInputs ==
  \E ref \in CidRefs, atts \in SeqsUpTo(Attachments, MaxAtts) :
    io = Call("inlineCidImages_",
              <<[kind |-> "text", s |-> "<img "], ref, [kind |-> "text", s |-> ">"]>>,
              atts)

ApplyInlineCid == io.fn = "inlineCidImages_" /\ Return(inlineCidImages_(io.in, io.env))

\* The attachments whose content id, normalised, is the normalised X
MatchingAtts(atts, ref) ==
  {i \in 1..Len(atts) : /\ NormalizeCid(atts[i].cid) # <<>>
                        /\ NormalizeCid(atts[i].cid) = NormalizeCid(ref.cid)}

\* The claim of C17 for the references picked by Concerns
CidSubstitution(Concerns(_)) ==
  (io.fn = "inlineCidImages_" /\ io.done) =>
    /\ Len(io.out) = Len(io.in)
    /\ \A i \in 1..Len(io.in) :
         LET seg == io.in[i]
         IN IF seg.kind = "cid" /\ MatchingAtts(io.env, seg) # {}
              THEN /\ io.out[i].kind = "src"
                   /\ io.out[i].q = seg.q
                   /\ \E k \in MatchingAtts(io.env, seg) : io.out[i].uri = DataUri(io.env[k])
              ELSE (seg.kind = "cid" => Concerns(seg)) => io.out[i] = seg

\* C17: every reference src="cid:X" whose X is, after normalising both
\* sides, the content id of an inline attachment is replaced by the data
\* URI of such an attachment between the same quotes; every other cid
\* reference and all other text is left as it was.
C17_CidSubstitution ==
  LET EveryRef(seg) == TRUE
  IN CidSubstitution(EveryRef)

\* C17 with the references whose X is a property name of {} set aside
C17_ExceptInheritedKeys ==
  LET Plain(seg) == ~Inherited(NormalizeCid(seg.cid)).found
  IN CidSubstitution(Plain)

\* src="cid:ABC123"-like reference resolved against content id <a>
C17_Resolved ==
  /\ io.fn = "inlineCidImages_" /\ io.done
  /\ io.in[2].cid = <<"A", " ">> /\ Len(io.env) = 1 /\ io.env[1].cid = <<"<", "A", ">">>
  /\ io.out[2].kind = "src"

\* ----------------------------------------------------- inlineExternalImages_
\* Segments: a reference src = q http(s)://... q (kind "remote"), a lazy
\* attribute data-src / data-original (kind "lazy"), a srcset attribute (kind
\* "srcset"), plain text. A URL is told by its length, by whether it is a
\* Google proxy URL with a '#' part (of length target), and by the
\* extension its path ends with.
UrlMax == 2000
MaxBytes == 5 * 1024 * 1024

\* normalizeGoogleProxyUrl_: the part after '#' of a proxy URL
normalizeGoogleProxyUrl_(u) ==
  IF u.proxy /\ u.hash THEN [u EXCEPT !.proxy = FALSE, !.hash = FALSE, !.len = u.target]
  ELSE u

\* The content type taken from the extension of the URL
InferType(ext) ==
  CASE ext \in {"png", "PNG"} -> "image/png"
    [] ext \in {"jpg", "jpeg"} -> "image/jpeg"
    [] ext = "gif" -> "image/gif"
    [] ext = "webp" -> "image/webp"
    [] OTHER -> "application/octet-stream"

\* The size test dropped
TooLarge_Never(n) == FALSE

\* bytes.length > 5 * 1024 * 1024
TooLarge(n) == n > MaxBytes

\* The replace callback on one reference m under the response resp of
\* UrlFetchApp.fetch: the segment returned and the fetches made.
ResolveRemote(m, resp) ==
  LET url == normalizeGoogleProxyUrl_(m.url)
      ctype == IF resp.ctype # "" THEN resp.ctype ELSE InferType(url.ext)
  IN IF url.len > UrlMax THEN [seg |-> m, fetches |-> 0]
     ELSE IF resp.throws THEN [seg |-> m, fetches |-> 1]
     ELSE IF resp.code # 200 THEN [seg |-> m, fetches |-> 1]
     ELSE IF TooLarge(resp.size) THEN [seg |-> m, fetches |-> 1]
     ELSE [seg |-> [kind |-> "src", q |-> m.q,
                    uri |-> [ctype |-> ctype, base64 |-> resp.bytes]],
           fetches |-> 1]

\* inlineExternalImages_ of both files; resps[i] is what the fetch for
\* segment i answers.
inlineExternalImages_(html, resps) ==
  IF html = <<>> THEN [html |-> html, fetches |-> <<>>]
  ELSE LET promoted == [i \in 1..Len(html) |->
                          IF html[i].kind = "lazy"
                            THEN [kind |-> "remote", q |-> html[i].q, ws |-> FALSE,
                                  url |-> html[i].url]
                            ELSE html[i]]
           stripped == [i \in 1..Len(html) |->
                          IF promoted[i].kind = "srcset"
                            THEN [kind |-> "text", s |-> ""]
                            ELSE promoted[i]]
           res == [i \in 1..Len(html) |->
                     IF stripped[i].kind = "remote"
                       THEN ResolveRemote(stripped[i], resps[i])
                       ELSE [seg |-> stripped[i], fetches |-> 0]]
       IN [html |-> [i \in 1..Len(html) |-> res[i].seg],
           fetches |-> [i \in 1..Len(html) |-> res[i].fetches]]

KiB10 == 10 * 1024
MiB6 == 6 * 1024 * 1024
Exts == {"png", "PNG", "jpg", "jpeg", "gif", "webp", "bmp", ""}
Urls ==
  {[proxy |-> FALSE, hash |-> FALSE, len |-> n, target |-> 0, ext |-> e] :
     n \in {UrlMax - 1, UrlMax, UrlMax + 1}, e \in Exts}
  \cup {[proxy |-> TRUE, hash |-> h, len |-> UrlMax + 600, target |-> n, ext |-> e] :
          h \in BOOLEAN, n \in {UrlMax, UrlMax + 1}, e \in {"png", ""}}
Responses ==
  {[throws |-> t, code |-> c, ctype |-> h, size |-> n, bytes |-> "bytes"] :
     t \in BOOLEAN, c \in {200, 204, 404}, h \in {"", "image/gif"},
     n \in {KiB10, MaxBytes, MaxBytes + 1, MiB6}}
RemoteRefs ==
  {[kind |-> "remote", q |-> q, ws |-> w, url |-> u] :
     q \in {"'", "\""}, w \in BOOLEAN, u \in Urls}
  \cup {[kind |-> "lazy", q |-> "\"", url |-> u] : u \in Urls}

ExternalInputs ==
  \E ref \in RemoteRefs, resp \in Responses :
    io = Call("inlineExternalImages_",
              <<[kind |-> "text", s |-> "<img "], [kind |-> "srcset", q |-> "\""], ref,
                [kind |-> "text", s |-> ">"]>>,
              [i \in 1..4 |-> resp])

ApplyInlineExternal ==
  io.fn = "inlineExternalImages_" /\ Return(inlineExternalImages_(io.in, io.env))

\* C18: every remote src reference comes out resolved to a data URI or
\* exactly as it was; it is as it was when the normalised URL is longer
\* than 2000 characters, when the fetch throws, when the status is not a
\* success status, when the content is larger than 5 MiB; a resolved
\* reference with no declared content type gets the type of the extension
\* (png, jpeg, gif, webp), else application/octet-stream; the call returns
\* and each reference is fetched at most once.
C18_RemoteImages ==
  (io.fn = "inlineExternalImages_" /\ io.done) =>
    /\ Len(io.out.html) = Len(io.in)
    /\ \A i \in 1..Len(io.in) :
         LET seg == io.in[i]
             resp == io.env[i]
             res == io.out.html[i]
             url == IF seg.url.proxy /\ seg.url.hash THEN seg.url.target ELSE seg.url.len
         IN /\ io.out.fetches[i] <= 1
            /\ seg.kind = "text" => res = seg
            /\ seg.kind = "remote" =>
                 /\ res = seg \/ (res.kind = "src" /\ res.q = seg.q)
                 /\ (\/ url > 2000
                     \/ resp.throws
                     \/ resp.code \notin 200..299
                     \/ resp.size > 5 * 1024 * 1024) => res = seg
                 /\ (res # seg /\ resp.ctype = "") =>
                      res.uri.ctype =
                        CASE seg.url.ext \in {"png", "PNG"} -> "image/png"
                          [] seg.url.ext \in {"jpg", "jpeg"} -> "image/jpeg"
                          [] seg.url.ext = "gif" -> "image/gif"
                          [] seg.url.ext = "webp" -> "image/webp"
                          [] OTHER -> "application/octet-stream"

\* A 10 KiB PNG with no declared content type has been resolved.
C18_Witness ==
  /\ io.fn = "inlineExternalImages_" /\ io.done
  /\ io.in[3].kind = "remote" /\ io.in[3].url.ext = "png"
  /\ io.env[3].size = KiB10 /\ io.env[3].ctype = ""
  /\ io.out.html[3].kind = "src" /\ io.out.html[3].uri.ctype = "image/png"

\* A 6 MiB image fetched with success is left unresolved.
C18_WitnessLarge ==
  /\ io.fn = "inlineExternalImages_" /\ io.done
  /\ io.in[3].kind = "remote"
  /\ io.env[3].size = MiB6 /\ io.env[3].code = 200 /\ ~io.env[3].throws
  /\ io.out.fetches[3] = 1
  /\ io.out.html[3] = io.in[3]

\* --------------------------------------------------------- specification
\* One helper call is about to be made.
\* ------------------------------------------------ render ledger round trip
\* The Sets of message ids a run can hold, in insertion order
IdSeqs ==
  {t \in SeqsUpTo(MsgIds, MaxMsgs) : \A i, j \in 1..Len(t) : i # j => t[i] # t[j]}

\* The states the 'ProcessedPDFs' sheet can be in when a run finds it:
\* absent, written by a save that ran to its end, or left cleared by a save
\* that the host ended after sheet.clearContents().
LedgerSheets ==
  {NoSheet, SheetOf(<<>>)} \cup {SheetOf(<<LedgerHeader>> \o t) : t \in IdSeqs}

\* saveProcessedIds_(S); loadProcessedIds_() and
\* S = loadProcessedIds_(); saveProcessedIds_(S) are about to be called.
LedgerInputs ==
  \/ \E log \in LedgerSheets \ {NoSheet}, t \in IdSeqs :
       io = Call("saveThenLoad", [log |-> log, set |-> t], <<>>)
  \/ \E log \in LedgerSheets : io = Call("loadThenSave", [log |-> log], <<>>)

ApplySaveThenLoad ==
  /\ io.fn = "saveThenLoad"
  /\ LET saved == saveProcessedIds_(io.in.log, io.in.set)
     IN Return([sheet |-> loadProcessedIds_sheet(saved),
                set |-> loadProcessedIds_(saved)])

ApplyLoadThenSave ==
  /\ io.fn = "loadThenSave"
  /\ LET loaded == loadProcessedIds_(io.in.log)
         found == loadProcessedIds_sheet(io.in.log)
     IN Return([found |-> found, set |-> loaded,
                sheet |-> saveProcessedIds_(found, loaded)])

\* C23, the load after a save: it returns exactly the ids saved, whatever
\* the sheet held before, and never the header.
C23_SaveThenLoad ==
  (io.fn = "saveThenLoad" /\ io.done) =>
    /\ io.out.set = io.in.set
    /\ LedgerHeader \notin SeqToSet(io.out.set)

\* C23, the load of an absent sheet: the sheet is created with its header
\* row and the empty Set is returned.
C23_LoadCreates ==
  (io.fn = "loadThenSave" /\ io.done /\ ~io.in.log.exists) =>
    /\ io.out.found = SheetOf(<<LedgerHeader>>)
    /\ io.out.set = <<>>

\* C23, the save of the Set just loaded: the sheet is as the load found it.
C23_LoadThenSave ==
  (io.fn = "loadThenSave" /\ io.done) =>
    /\ LedgerHeader \notin SeqToSet(io.out.set)
    /\ io.out.sheet = io.out.found

\* C23: loadProcessedIds_ creates an absent ledger sheet with the header
\* row 'messageId' and returns the empty Set; a load after saveProcessedIds_(S)
\* returns exactly S; the header row is never returned as an id; and saving
\* the Set just loaded leaves the contents of the sheet unchanged.
C23_RoundTrip == C23_SaveThenLoad /\ C23_LoadCreates /\ C23_LoadThenSave

\* C23, the save of the Set just loaded, for a sheet that is absent or has
\* its header row
C23_LoadThenSaveIntact ==
  (io.fn = "loadThenSave" /\ io.done /\ io.in.log # SheetOf(<<>>)) =>
    io.out.sheet = io.out.found

\* A save over a longer ledger has been read back.
C23_SavedOverLonger ==
  /\ io.fn = "saveThenLoad" /\ io.done
  /\ Len(io.in.log.rows) > Len(io.in.set) + 1
  /\ io.in.set # <<>>

PureInputs ==
  ParseInputs \/ NameInputs \/ CidInputs \/ ExternalInputs \/ LedgerInputs

InitPure ==
  /\ labelExists = TRUE
  /\ source = <<>>
  /\ sheet = NoSheet
  /\ logSheet = NoSheet
  /\ files = <<>>
  /\ run = [r \in Procs |-> IdleRun]
  /\ prev = NoPrev
  /\ nRuns = 0
  /\ nFaults = 0
  /\ PureInputs

NextPure ==
  \/ ApplyParse
  \/ ApplyIngestParse
  \/ ApplyBuildFileName
  \/ ApplyExportBuildFileName
  \/ ApplyInlineCid
  \/ ApplyInlineExternal
  \/ ApplySaveThenLoad
  \/ ApplyLoadThenSave

SpecPure == InitPure /\ [][NextPure]_vars

====
